---- MODULE Spec2Model ----
(***************************************************************************)
(* Model of the grablin CLI core: the credential resolver (lib/auth) with  *)
(* its retrying identity lookup, the schema validator and the              *)
(* configuration file (lib/config), and the generation run (lib/generator). *)
(*                                                                         *)
(* Spec          the credential resolver: getToken / hasToken /            *)
(*               getAuthHeaders and one call of getGitHubUser              *)
(* FairSpec      Spec with the fairness of the event loop: a pending fetch *)
(*               settles and a pending timer fires                         *)
(* SpecValidate  validateConfig applied to configurations drawn from       *)
(*               bounded input families                                    *)
(* SpecStore     loadConfig / saveConfig on a file system that other       *)
(*               programs can change between two steps of a load           *)
(* SpecGenerate  one run of generate: credential check, output-option      *)
(*               check, the POST and the mapping of its answer; and one    *)
(*               run of listModules                                        *)
(* SpecCommand   one run of the generate command                           *)
(* SpecInit      one run of the init command, alone                        *)
(* SpecInitShared  the init command and another process changing the files *)
(* SpecList      groupByKind of the list command on bounded catalogs       *)
(***************************************************************************)
EXTENDS Integers, Sequences, FiniteSets, TLC

VARIABLES
    env,          \* process.env: [GITHUB_TOKEN, GH_TOKEN]
    pc,           \* position of the getGitHubUser call: idle, fetch, sleep, done
    attempt,      \* loop variable of getGitHubUser
    requests,     \* number of fetch() calls issued by getGitHubUser
    waits,        \* the setTimeout delays awaited, in order
    outcomes,     \* how each attempt ended, in order (history)
    result,       \* the promise getGitHubUser returned
    tokenCall,    \* <<>> or <<[env, ret]>>: the last direct getToken() call
    hasCall,      \* <<>> or <<[env, ret]>>: the last direct hasToken() call
    config,       \* the argument of the last validateConfig call
    vres,         \* <<>> or <<ValidationResult>> of the last validateConfig call
    files,        \* the file system: absolute path -> what the file holds
    sres,         \* <<>> or <<outcome>> of the last saveConfig call
    written,      \* per path: <<c>> while the file is what saveConfig(c) wrote (history)
    lpc,          \* position of the loadConfig call: idle, read, done
    lpath,        \* absolutePath of the loadConfig call
    lfrom,        \* written[lpath] when the load began, <<>> once disturbed (history)
    lseen,        \* what the file held at the load's last file access (history)
    lres,         \* the outcome of the loadConfig call
    gpc,          \* position of the generate call: idle, fetch, done
    gcall,        \* <<>> or <<[env, options]>>: the generate call (history)
    gposts,       \* the POST requests generate issued, in order
    gresp,        \* <<>> or <<the answer the POST settled with>> (history)
    gres,         \* <<>> or <<GenerationOutcome>> of the generate call
    lmpc,         \* position of the listModules call: idle, fetch, done
    lmgets,       \* the GET requests listModules issued, in order
    lmresp,       \* <<>> or <<the answer the GET settled with>> (history)
    lmres,        \* <<>> or <<result>> of the listModules call
    cpc,          \* position of the generate command: idle, load, generate, exit
    copts,        \* the options of the generate command
    cload,        \* <<>> or <<outcome>> of the command's loadConfig call
    cevents,      \* the calls the generate command made, in order (history)
    cstatus,      \* <<>> or <<exit status>> of the generate command
    ipc,          \* position of the init command: idle, confirm, prompt, save, done
    iforce,       \* --force of the init command
    ipath,        \* configPath of the init command, resolved
    iexisting,    \* existingContent of the init command: <<>> (null) or <<content>>
    ianswer,      \* <<>> or <<what confirmOverwrite returned>>
    ireplaced,    \* <<>> or <<what the file held when the command wrote it>> (history)
    ievents,      \* the calls the init command made, in order (history)
    lmods,        \* the argument of the groupByKind call
    lgroups       \* <<>> or <<groups>>: the result of the groupByKind call

vars == <<env, pc, attempt, requests, waits, outcomes, result, tokenCall, hasCall,
          config, vres, files, sres, written, lpc, lpath, lfrom, lseen, lres,
          gpc, gcall, gposts, gresp, gres, lmpc, lmgets, lmresp, lmres,
          cpc, copts, cload, cevents, cstatus, ipc, iforce, ipath, iexisting, ianswer, ireplaced, ievents,
          lmods, lgroups>>

authVars == <<env, pc, attempt, requests, waits, outcomes, result, tokenCall, hasCall>>
validateVars == <<config, vres>>
storeVars == <<files, sres, written, lpc, lpath, lfrom, lseen, lres>>
genVars == <<gpc, gcall, gposts, gresp, gres>>
catalogVars == <<lmpc, lmgets, lmresp, lmres>>
commandVars == <<cpc, copts, cload, cevents, cstatus>>
initVars == <<ipc, iforce, ipath, iexisting, ianswer, ireplaced, ievents>>
listVars == <<lmods, lgroups>>
cliVars == <<catalogVars, commandVars, initVars, listVars>>

(***************************************************************************)
(* JavaScript values                                                       *)
(***************************************************************************)
\* an absent property / unset environment variable
Undefined == "<undefined>"
\* the JavaScript null
Null == "<null>"

\* ToBoolean on the values an environment variable or string field can hold
Truthy(v) == v \notin {Undefined, Null, ""}

\* a || b
JsOr(a, b) == IF Truthy(a) THEN a ELSE b

\* a settled or pending promise
Pending == [state |-> "pending", value |-> Undefined]
Fulfilled(v) == [state |-> "fulfilled", value |-> v]
Rejected(e) == [state |-> "rejected", value |-> e]

\* the outcome of a synchronous call: a return value or a thrown error
Returned(v) == [threw |-> FALSE, value |-> v]
Threw(e) == [threw |-> TRUE, value |-> e]

(***************************************************************************)
(* lib/config: values of a parsed configuration document                   *)
(* A string is the sequence of its characters, so that the patterns and    *)
(* length limits of the validator are computed on it.                      *)
(***************************************************************************)
JsUndefined == [t |-> "undefined"]
JsNull == [t |-> "null"]
\* a string held as its characters, and a string that is only compared as a whole
Str(s) == [t |-> "string", chars |-> s]
Name(n) == [t |-> "string", name |-> n]
Arr(a) == [t |-> "array", items |-> a]
Obj(o) == [t |-> "object", fields |-> o]

\* !x
Not(x) ==
    \/ x.t \in {"undefined", "null"}
    \/ x.t = "string" /\ (IF "chars" \in DOMAIN x THEN Len(x.chars) = 0 ELSE x.name = "")

\* Array.isArray(x)
IsArray(x) == x.t = "array"

Rep(c, n) == [i \in 1..n |-> c]

Lower == {"a", "b", "c", "d", "e", "f", "g", "h", "i", "j", "k", "l", "m",
          "n", "o", "p", "q", "r", "s", "t", "u", "v", "w", "x", "y", "z"}
Upper == {"A", "B", "C", "D", "E", "F", "G", "H", "I", "J", "K", "L", "M",
          "N", "O", "P", "Q", "R", "S", "T", "U", "V", "W", "X", "Y", "Z"}
Digit == {"0", "1", "2", "3", "4", "5", "6", "7", "8", "9"}
Letter == Lower \cup Upper
Alnum == Letter \cup Digit

\* every character of s[a..b] is in S
AllIn(s, a, b, S) == \A i \in a..b : s[i] \in S

\* the segments of s[from..Len(s)] between occurrences of sep, as <<a, b>> with the
\* segment at a+1..b-1: what s.split(sep) yields
Segments(s, from, sep) ==
    LET cuts == {from - 1, Len(s) + 1} \cup {i \in from..Len(s) : s[i] = sep}
    IN  {ab \in cuts \X cuts :
            ab[1] < ab[2] /\ \A d \in cuts : ~(ab[1] < d /\ d < ab[2])}

\* [a-z0-9](?:[a-z0-9-]{0,61}[a-z0-9])? matched against s[a..b], letters of either case
IsLabel(s, a, b) ==
    /\ b - a + 1 >= 1
    /\ b - a + 1 <= 63
    /\ s[a] \in Alnum
    /\ s[b] \in Alnum
    /\ AllIn(s, a, b, Alnum \cup {"-"})

\* /^[a-zA-Z][a-zA-Z0-9-_]{0,99}$/
ProjectNameRe(s) ==
    /\ Len(s) >= 1
    /\ Len(s) <= 100
    /\ s[1] \in Letter
    /\ AllIn(s, 2, Len(s), Alnum \cup {"-", "_"})

\* /^(?:[a-z0-9](?:[a-z0-9-]{0,61}[a-z0-9])?\.)+[a-z]{2,24}$/i
DomainRe(s) ==
    LET segs == Segments(s, 1, ".")
    IN  /\ Cardinality(segs) >= 2
        /\ \A ab \in segs :
              IF ab[2] = Len(s) + 1
              THEN /\ ab[2] - ab[1] - 1 >= 2
                   /\ ab[2] - ab[1] - 1 <= 24
                   /\ AllIn(s, ab[1] + 1, ab[2] - 1, Letter)
              ELSE IsLabel(s, ab[1] + 1, ab[2] - 1)

\* config.domain.length > 253
DomainTooLong(s) == Len(s) > 253

\* config.domain.split('.').some(label => label.length > 63)
SomeLabelTooLong(s) == \E ab \in Segments(s, 1, ".") : ab[2] - ab[1] - 1 > 63

\* the character class of the local part (the backquote, which a TLA+ string cannot
\* hold, is left out; no input uses it)
LocalChars ==
    Alnum \cup {".", "!", "#", "$", "%", "&", "'", "*", "+", "/", "=", "?", "^", "_",
                "{", "|", "}", "~", "-"}

\* the owner pattern: a local part, one @, dot-separated labels
OwnerRe(s) ==
    LET ats == {i \in 1..Len(s) : s[i] = "@"}
    IN  /\ Cardinality(ats) = 1
        /\ LET p == CHOOSE i \in ats : TRUE
           IN  /\ p >= 2
               /\ AllIn(s, 1, p - 1, LocalChars)
               /\ \A ab \in Segments(s, p + 1, ".") : IsLabel(s, ab[1] + 1, ab[2] - 1)

\* /^[a-z][a-z0-9-]{0,99}$/
ModuleIdRe(s) ==
    /\ Len(s) >= 1
    /\ Len(s) <= 100
    /\ s[1] \in Lower
    /\ AllIn(s, 2, Len(s), Lower \cup Digit \cup {"-"})

EndsWithHyphen_Never(s) == FALSE

\* moduleId.endsWith('-')
EndsWithHyphen(s) == Len(s) >= 1 /\ s[Len(s)] = "-"

\* moduleId.includes('--')
IncludesDoubleHyphen(s) == \E i \in 1..(Len(s) - 1) : s[i] = "-" /\ s[i + 1] = "-"

\* an error or warning string: the field path it names and its text; index is the
\* position i of modules[i], or -1 for a top-level field
Msg(field, text) == [index |-> -1, field |-> field, text |-> text]
ModMsg(i, field, text) == [index |-> i, field |-> field, text |-> text]

KINDS == {"code", "extension", "provider", "vcs"}

\* module.kind, module.type, module.moduleId: the fields of an object; reading a
\* property of a string or number element yields undefined
FieldsOf(module) ==
    IF module.t = "object" THEN module.fields
    ELSE [kind |-> JsUndefined, type |-> JsUndefined, moduleId |-> JsUndefined]

\* validateModule(module, index), for a module that is no null
validateModule(module, index) ==
    LET m == FieldsOf(module)
        kindErrors ==
            IF Not(m.kind)
            THEN <<ModMsg(index, "kind", ".kind is required (code, extension, provider, vcs)")>>
            ELSE IF ~(m.kind.t = "string" /\ m.kind.name \in KINDS)
                 THEN <<ModMsg(index, "kind", ".kind must be one of: code, extension, provider, vcs")>>
                 ELSE <<>>
        typeErrors ==
            IF Not(m.type) THEN <<ModMsg(index, "type", ".type is required")>> ELSE <<>>
        idErrors ==
            IF Not(m.moduleId)
            THEN <<ModMsg(index, "moduleId", ".moduleId is required")>>
            ELSE IF ~ModuleIdRe(m.moduleId.chars)
                 THEN <<ModMsg(index, "moduleId", ".moduleId must be lowercase, start with a letter, use hyphens only, and be 1-100 chars")>>
                 ELSE IF EndsWithHyphen(m.moduleId.chars) \/ IncludesDoubleHyphen(m.moduleId.chars)
                      THEN <<ModMsg(index, "moduleId", ".moduleId cannot end with hyphen or contain consecutive hyphens")>>
                      ELSE <<>>
    IN  kindErrors \o typeErrors \o idErrors

RECURSIVE Flatten(_)
Flatten(ss) == IF ss = <<>> THEN <<>> ELSE Head(ss) \o Flatten(Tail(ss))

ProjectNameErrors(c) ==
    IF Not(c.projectName)
    THEN <<Msg("projectName", "projectName is required")>>
    ELSE IF ~ProjectNameRe(c.projectName.chars)
         THEN <<Msg("projectName", "projectName must start with a letter, contain only letters, numbers, hyphens, and underscores, and be 1-100 chars")>>
         ELSE <<>>

DomainErrors(c) ==
    IF Not(c.domain)
    THEN <<Msg("domain", "domain is required")>>
    ELSE IF ~DomainRe(c.domain.chars)
         THEN <<Msg("domain", "domain must be a valid domain name (e.g., myapp.com, api.myapp.io)")>>
         ELSE IF DomainTooLong(c.domain.chars)
              THEN <<Msg("domain", "domain name too long (max 253 characters)")>>
              ELSE IF SomeLabelTooLong(c.domain.chars)
                   THEN <<Msg("domain", "domain label too long (max 63 characters per label)")>>
                   ELSE <<>>

OwnerErrors(c) ==
    IF Not(c.owner)
    THEN <<Msg("owner", "owner email is required")>>
    ELSE IF ~OwnerRe(c.owner.chars)
         THEN <<Msg("owner", "owner must be a valid email address")>>
         ELSE IF Len(c.owner.chars) > 254
              THEN <<Msg("owner", "email address too long (max 254 characters)")>>
              ELSE <<>>

ModulesErrors_OneBased(c) ==
    IF Not(c.modules) \/ ~IsArray(c.modules)
    THEN <<Msg("modules", "modules array is required")>>
    ELSE Flatten([i \in 1..Len(c.modules.items) |-> validateModule(c.modules.items[i], i)])

\* the modules branch of validateConfig: the errors it pushes
ModulesErrors(c) ==
    IF Not(c.modules) \/ ~IsArray(c.modules)
    THEN <<Msg("modules", "modules array is required")>>
    ELSE Flatten([i \in 1..Len(c.modules.items) |-> validateModule(c.modules.items[i], i - 1)])

ModulesWarnings_NoEmptyWarning(c) ==
    IF Not(c.modules) \/ ~IsArray(c.modules) \/ Len(c.modules.items) = 0
    THEN <<>>
    ELSE IF \A i \in 1..Len(c.modules.items) :
               ~(FieldsOf(c.modules.items[i]).kind = Name("code"))
         THEN <<Msg("modules", "No code modules (frontend/backend) specified")>>
         ELSE <<>>

ModulesWarnings_AnyNonCode(c) ==
    IF Not(c.modules) \/ ~IsArray(c.modules)
    THEN <<>>
    ELSE IF Len(c.modules.items) = 0
         THEN <<Msg("modules", "No modules specified - project will be empty")>>
         ELSE IF \E i \in 1..Len(c.modules.items) :
                    ~(FieldsOf(c.modules.items[i]).kind = Name("code"))
              THEN <<Msg("modules", "No code modules (frontend/backend) specified")>>
              ELSE <<>>

\* the modules branch of validateConfig: the warnings it pushes
ModulesWarnings(c) ==
    IF Not(c.modules) \/ ~IsArray(c.modules)
    THEN <<>>
    ELSE IF Len(c.modules.items) = 0
         THEN <<Msg("modules", "No modules specified - project will be empty")>>
         ELSE IF \A i \in 1..Len(c.modules.items) :
                    ~(FieldsOf(c.modules.items[i]).kind = Name("code"))
              THEN <<Msg("modules", "No code modules (frontend/backend) specified")>>
              ELSE <<>>

EnvironmentsWarnings(c) ==
    IF Not(c.environments) \/ ~IsArray(c.environments)
    THEN <<Msg("environments", "No environments specified, using defaults (dev, staging, prod)")>>
    ELSE <<>>

\* reading a property of a null element throws a TypeError out of validateConfig
ModuleAccessThrows(c) ==
    /\ ~Not(c.modules)
    /\ IsArray(c.modules)
    /\ \E i \in 1..Len(c.modules.items) : c.modules.items[i].t = "null"

IsValid_Always(errors) == TRUE

\* valid: errors.length === 0
IsValid(errors) == Len(errors) = 0

\* the document is the JSON null: config.projectName throws a TypeError
DocumentAccessThrows(c) == c = JsNull

validateConfig(c) ==
    IF DocumentAccessThrows(c) THEN Threw("TypeError")
    ELSE IF ModuleAccessThrows(c) THEN Threw("TypeError")
    ELSE LET errors == ProjectNameErrors(c) \o DomainErrors(c) \o OwnerErrors(c)
                       \o ModulesErrors(c)
             warnings == ModulesWarnings(c) \o EnvironmentsWarnings(c)
         IN  Returned([valid |-> IsValid(errors), errors |-> errors, warnings |-> warnings])

(***************************************************************************)
(* Configurations the validator is applied to                              *)
(***************************************************************************)
MaxModules == 2
MaxLongLabels == 4

S_TestApp == <<"T", "e", "s", "t", "A", "p", "p">>
S_test_com == <<"t", "e", "s", "t", ".", "c", "o", "m">>
S_owner == <<"t", "e", "s", "t", "@", "e", "x", ".", "c", "o">>

ProjectNameInputs ==
    {JsUndefined, Str(<<>>), Str(S_TestApp), Str(<<"1", "2", "3", "-", "x">>),
     Str(Rep("a", 100)), Str(Rep("a", 101))}

\* k labels of 63 characters, then at most one more label, then a top-level label
RECURSIVE JoinDot(_)
JoinDot(labels) ==
    IF Len(labels) = 1 THEN labels[1]
    ELSE labels[1] \o <<".">> \o JoinDot(Tail(labels))

ExtraLabels == {<<>>, <<Rep("a", 1)>>, <<Rep("b", 64)>>, <<<<"-", "a">>>>, <<<<"m", "y", "-", "a">>>>}
TopLabels == {<<"c", "o", "m">>, Rep("c", 25), <<"c", "0">>}

DomainStrings ==
    {JoinDot([i \in 1..k |-> Rep("a", 63)] \o x \o <<tld>>) :
        k \in 0..MaxLongLabels, x \in ExtraLabels, tld \in TopLabels}

DomainInputs == {JsUndefined, Str(<<>>)} \cup {Str(d) : d \in DomainStrings}

OwnerInputs ==
    {JsUndefined, Str(S_owner), Str(<<"n", "o", "-", "e", "m", "a", "i", "l">>),
     Str(Rep("a", 250) \o <<"@", "e", ".", "c", "o">>)}

EnvironmentsInputs == {JsUndefined, Str(<<"d", "e", "v">>), Arr(<<>>), Arr(<<Str(<<"d", "e", "v">>)>>)}

KindInputs == {JsUndefined, Name("code"), Name("extension"), Name("invalid")}
TypeInputs == {JsUndefined, Name("react")}
ModuleIdInputs ==
    {JsUndefined, Str(<<"a", "p", "i">>), Str(<<"A", "_", "b">>), Str(<<"a", "p", "i", "-">>),
     Str(<<"a", "-", "-", "b">>)}

ModuleInputs ==
    {JsNull} \cup {Obj(m) : m \in [kind : KindInputs, type : TypeInputs, moduleId : ModuleIdInputs]}

\* one module of every kind and type with further moduleId values, and elements
\* that are no objects
MoreModuleIds ==
    {Str(<<"a", "-">>), Str(<<"A", "-", "-">>), Str(<<"-">>), Str(<<"a", "-", "-">>),
     Str(<<"1", "a", "-">>), Str(Rep("a", 100)), Str(Rep("a", 101)), Str(Rep("a", 100) \o <<"-">>),
     Str(<<>>), Str(<<"a", "-", "b", "2">>)}
SingleModuleInputs ==
    {Str(<<"x">>)} \cup
    {Obj(m) : m \in [kind : KindInputs \cup {Name("provider"), Name("vcs"), Name("")},
                     type : TypeInputs \cup {Name("")},
                     moduleId : MoreModuleIds]}

\* every sequence of at most max modules
ModuleSeqs(max) == UNION {[1..n -> ModuleInputs] : n \in 0..max}

CodeModule == Obj([kind |-> Name("code"), type |-> Name("react"), moduleId |-> Str(<<"a", "p", "i">>)])
ExtensionModule == Obj([kind |-> Name("extension"), type |-> Name("auth0"), moduleId |-> Str(<<"a", "p", "i">>)])

\* the configuration of the test 'validates valid config'
ValidConfig ==
    [projectName |-> Str(S_TestApp), domain |-> Str(S_test_com), owner |-> Str(S_owner),
     modules |-> Arr(<<CodeModule>>), environments |-> Arr(<<Str(<<"d", "e", "v">>)>>)]

\* the families of inputs: every domain, every combination of the scalar fields,
\* and every sequence of at most max modules
ConfigInputs(max) ==
    {[ValidConfig EXCEPT !.domain = d, !.projectName = n, !.modules = m] :
        d \in DomainInputs, n \in {Str(S_TestApp), JsUndefined},
        m \in {Arr(<<>>), Arr(<<CodeModule>>)}}
    \cup
    {[projectName |-> n, domain |-> d, owner |-> o, modules |-> m, environments |-> e] :
        n \in ProjectNameInputs, d \in {Str(S_test_com), JsUndefined},
        o \in OwnerInputs,
        m \in {JsUndefined, Str(<<"x">>), Arr(<<>>), Arr(<<CodeModule>>), Arr(<<ExtensionModule>>)},
        e \in EnvironmentsInputs}
    \cup
    {[ValidConfig EXCEPT !.modules = Arr(ms)] : ms \in ModuleSeqs(max)}
    \cup
    {[ValidConfig EXCEPT !.modules = Arr(<<m>>)] : m \in SingleModuleInputs}
    \cup
    {[ValidConfig EXCEPT !.modules = Arr(<<CodeModule, m>>)] : m \in SingleModuleInputs}
    \cup
    {JsNull}

(***************************************************************************)
(* lib/config: the configuration file (loadConfig / saveConfig)            *)
(* An in-memory configuration is a function from the keys it has to their  *)
(* values; a key can be present with the value undefined.                  *)
(***************************************************************************)
DEFAULT_CONFIG_FILE == "grablin.json"

\* getConfigPath(configOption): configOption || DEFAULT_CONFIG_FILE
getConfigPath(configOption) == JsOr(configOption, DEFAULT_CONFIG_FILE)

\* the files of the model, by absolute path
AbsolutePaths == {"/cwd/grablin.json", "/cwd/custom.json"}

\* path.resolve(filePath): an absolute path is kept, a relative one is
\* resolved against the working directory
pathResolve(filePath) ==
    IF filePath \in AbsolutePaths THEN filePath
    ELSE IF filePath = "grablin.json" THEN "/cwd/grablin.json"
    ELSE "/cwd/custom.json"

\* the configPath arguments of loadConfig / saveConfig
PathInputs == {Undefined, "", "custom.json", "/cwd/grablin.json"}

\* o[k] in JavaScript: undefined when the key is absent
Get(o, k) == IF k \in DOMAIN o THEN o[k] ELSE Undefined

\* { ...defaults, ...o }: the keys of o override those of defaults, also when
\* the value is undefined
Spread(defaults, o) ==
    [k \in DOMAIN defaults \cup DOMAIN o |->
        IF k \in DOMAIN o THEN o[k] ELSE defaults[k]]

\* what a file holds
Missing == [t |-> "missing"]
NotJson == [t |-> "text", raw |-> "not valid json {{{"]
JsonText(members) == [t |-> "json", members |-> members]

\* JSON.stringify(o, null, 2) + '\n': members whose value is undefined are
\* left out
JSONstringify(o) ==
    JsonText([k \in {j \in DOMAIN o : o[j] # Undefined} |-> o[k]])

\* JSON.parse(content)
JSONparse(content) ==
    IF content.t = "json" THEN Returned(content.members)
    ELSE Threw([message |-> "Unexpected token"])

\* fs.pathExists(absolutePath)
pathExists(fs, absolutePath) == fs[absolutePath] # Missing

\* fs.readFile(absolutePath, 'utf-8')
readFile(fs, absolutePath) ==
    IF fs[absolutePath] = Missing
    THEN Threw([message |-> "ENOENT: no such file or directory"])
    ELSE Returned(fs[absolutePath])

\* the error loadConfig's catch clause throws for whatever the try block threw
ParseFailure(error) ==
    [prefix |-> "Failed to parse config file: ", message |-> error.message]

\* the try block of loadConfig: readFile, then JSON.parse
loadConfigRead(fs, absolutePath) ==
    LET content == readFile(fs, absolutePath)
    IN  IF content.threw THEN Threw(ParseFailure(content.value))
        ELSE LET parsed == JSONparse(content.value)
             IN  IF parsed.threw THEN Threw(ParseFailure(parsed.value))
                 ELSE parsed

\* the document saveConfig writes for a configuration
configWithVersion(c) == Spread([version |-> "1.0"], c)

\* the configurations handed to saveConfig
VersionInputs == {"1.0", "2.0", Undefined}
StoreConfigs ==
    UNION { [ks -> {"TestApp", "test.com", "b.org"} \cup VersionInputs] :
            ks \in {{"projectName", "domain"}, {"projectName", "domain", "version"}} }
SaveInputs ==
    { c \in StoreConfigs :
        /\ c["projectName"] = "TestApp"
        /\ c["domain"] \in {"test.com", "b.org"}
        /\ "version" \in DOMAIN c => c["version"] \in VersionInputs }

\* saveConfig(c, configPath); the write succeeds or fails (ok)
SaveConfig(c, configPath, ok) ==
    LET absolutePath == pathResolve(getConfigPath(configPath))
    IN  /\ files' = IF ok
                    THEN [files EXCEPT ![absolutePath] = JSONstringify(configWithVersion(c))]
                    ELSE files
        /\ sres' = IF ok THEN <<Returned(absolutePath)>>
                   ELSE <<Threw([message |-> "EACCES: permission denied"])>>
        /\ written' = IF ok THEN [written EXCEPT ![absolutePath] = <<c>>] ELSE written
        /\ lfrom' = IF ok /\ lpc = "read" /\ lpath = absolutePath THEN <<>> ELSE lfrom
        /\ UNCHANGED <<lpc, lpath, lseen, lres, authVars, validateVars, genVars, cliVars>>

\* loadConfig(configPath) up to its first await: the existence probe
LoadProbe(configPath) ==
    LET absolutePath == pathResolve(getConfigPath(configPath))
    IN  /\ lpc \in {"idle", "done"}
        /\ lpath' = absolutePath
        /\ lfrom' = written[absolutePath]
        /\ lseen' = files[absolutePath]
        /\ IF ~pathExists(files, absolutePath)
           THEN lpc' = "done" /\ lres' = Returned(JsNull)
           ELSE lpc' = "read" /\ lres' = Returned(JsUndefined)
        /\ UNCHANGED <<files, sres, written, authVars, validateVars, genVars, cliVars>>

\* loadConfig resumes: the read and the parse
LoadRead ==
    /\ lpc = "read"
    /\ lpc' = "done"
    /\ lseen' = files[lpath]
    /\ lres' = loadConfigRead(files, lpath)
    /\ UNCHANGED <<files, sres, written, lpath, lfrom, authVars, validateVars, genVars, cliVars>>

\* another program removes the file or overwrites it with other text
FileChange(absolutePath, content) ==
    /\ files[absolutePath] # content
    /\ files' = [files EXCEPT ![absolutePath] = content]
    /\ written' = [written EXCEPT ![absolutePath] = <<>>]
    /\ lfrom' = IF lpc = "read" /\ lpath = absolutePath THEN <<>> ELSE lfrom
    /\ UNCHANGED <<sres, lpc, lpath, lseen, lres, authVars, validateVars, genVars, cliVars>>

(***************************************************************************)
(* lib/auth                                                                *)
(***************************************************************************)
TokenValues == {Undefined, "", "ghp_primary", "ghp_secondary"}
Envs == [GITHUB_TOKEN : TokenValues, GH_TOKEN : TokenValues]

getToken_SecondaryFirst(e) ==
    LET token == JsOr(e.GH_TOKEN, e.GITHUB_TOKEN)
    IN  IF ~Truthy(token) THEN Threw("AuthError") ELSE Returned(token)

getToken_NeverThrows(e) == Returned(JsOr(e.GITHUB_TOKEN, e.GH_TOKEN))

getToken(e) ==
    LET token == JsOr(e.GITHUB_TOKEN, e.GH_TOKEN)
    IN  IF ~Truthy(token) THEN Threw("AuthError") ELSE Returned(token)

hasToken_OnlyPrimary(e) == Truthy(e.GITHUB_TOKEN)

hasToken_DefinedOnly(e) == e.GITHUB_TOKEN # Undefined \/ e.GH_TOKEN # Undefined

hasToken(e) == Truthy(JsOr(e.GITHUB_TOKEN, e.GH_TOKEN))

\* the header value is "Bearer " + token; the token is kept as the header's payload
getAuthHeaders(e) ==
    LET t == getToken(e)
    IN  IF t.threw THEN t ELSE Returned([Authorization |-> <<"Bearer", t.value>>])

maxRetries_Four == 3 + 1

maxRetries == 3

baseDelay == 1000

\* what a fetch() of the identity endpoint can settle to
BadJson == "<not json>"
Responses ==
    {[threw |-> FALSE, status |-> 200, body |-> "testuser"],
     [threw |-> FALSE, status |-> 200, body |-> "otheruser"],
     [threw |-> FALSE, status |-> 200, body |-> BadJson],
     [threw |-> FALSE, status |-> 304, body |-> ""],
     [threw |-> FALSE, status |-> 401, body |-> ""],
     [threw |-> FALSE, status |-> 404, body |-> ""],
     [threw |-> FALSE, status |-> 500, body |-> ""],
     [threw |-> FALSE, status |-> 503, body |-> ""]}
NetworkError == [threw |-> TRUE, status |-> 0, body |-> "Network error"]
HeaderError == [threw |-> TRUE, status |-> 0, body |-> "AuthError"]
FetchOutcomes == Responses \cup {NetworkError}

\* Response.ok
ResponseOk(r) == r.status >= 200 /\ r.status <= 299

\* response.json(): a promise of the parsed body, rejected when the body is no JSON
ResponseJson(r) == IF r.body = BadJson THEN Rejected("SyntaxError") ELSE Fulfilled(r.body)

IsClientError_Never(r) == FALSE

\* the 4xx test of getGitHubUser
IsClientError(r) == r.status >= 400 /\ r.status < 500

\* the guard of both backoff blocks
ShouldWait_Always(k) == TRUE

ShouldWait(k) == k < maxRetries - 1

Delay(k) == baseDelay * 2^k

\* the state of a getGitHubUser call
CallState(p, k, req, w, outs, res) ==
    [pc |-> p, attempt |-> k, requests |-> req, waits |-> w, outcomes |-> outs,
     result |-> res]

RECURSIVE LoopHead(_, _, _, _, _)
RECURSIVE AfterFailure(_, _, _, _, _)

\* control reaches the for-loop test with attempt = k: the loop ends with null, or
\* the headers are built and fetch() is issued, or getAuthHeaders throws into the catch
LoopHead(k, e, req, w, outs) ==
    IF ~(k < maxRetries)
    THEN CallState("done", k, req, w, outs, Fulfilled(Null))
    ELSE IF getAuthHeaders(e).threw
         THEN AfterFailure(k, e, req, w, Append(outs, HeaderError))
         ELSE CallState("fetch", k, req + 1, w, outs, Pending)

\* the backoff block (the same in the 5xx path and in the catch): wait unless this
\* was the last attempt, then attempt++
AfterFailure(k, e, req, w, outs) ==
    IF ShouldWait(k)
    THEN CallState("sleep", k, req, Append(w, Delay(k)), outs, Pending)
    ELSE LoopHead(k + 1, e, req, w, outs)

\* the first awaited fetch settled with o
AfterFetch(k, e, req, w, outs, o) ==
    IF o.threw
    THEN AfterFailure(k, e, req, w, Append(outs, o))
    ELSE IF ResponseOk(o)
         THEN \* return response.json(): not awaited inside the try, so a rejection
              \* of the body promise settles the call and is not caught
              CallState("done", k, req, w, Append(outs, o), ResponseJson(o))
         ELSE IF IsClientError(o)
              THEN CallState("done", k, req, w, Append(outs, o), Fulfilled(Null))
              ELSE AfterFailure(k, e, req, w, Append(outs, o))

Become(s) ==
    /\ pc' = s.pc
    /\ attempt' = s.attempt
    /\ requests' = s.requests
    /\ waits' = s.waits
    /\ outcomes' = s.outcomes
    /\ result' = s.result

\* getGitHubUser() is called: the hasToken() probe, then the loop up to its first await
Call ==
    /\ pc = "idle"
    /\ IF ~hasToken(env)
       THEN Become(CallState("done", 0, 0, <<>>, <<>>, Fulfilled(Null)))
       ELSE Become(LoopHead(0, env, 0, <<>>, <<>>))
    /\ UNCHANGED <<env, tokenCall, hasCall, validateVars, storeVars, genVars, cliVars>>

\* the pending fetch settles with o and the call runs on to its next await or its end
Respond(o) ==
    /\ pc = "fetch"
    /\ Become(AfterFetch(attempt, env, requests, waits, outcomes, o))
    /\ UNCHANGED <<env, tokenCall, hasCall, validateVars, storeVars, genVars, cliVars>>

\* the backoff timer fires: attempt++ and the loop test
TimerFires ==
    /\ pc = "sleep"
    /\ Become(LoopHead(attempt + 1, env, requests, waits, outcomes))
    /\ UNCHANGED <<env, tokenCall, hasCall, validateVars, storeVars, genVars, cliVars>>

\* other code of the process changes a credential variable while the call is suspended
EnvChange(e) ==
    /\ pc \in {"fetch", "sleep"}
    /\ e # env
    /\ env' = e
    /\ UNCHANGED <<pc, attempt, requests, waits, outcomes, result, tokenCall, hasCall,
                   validateVars, storeVars, genVars, cliVars>>

\* a direct call of getToken()
CallGetToken ==
    /\ pc = "idle"
    /\ tokenCall = <<>>
    /\ tokenCall' = <<[env |-> env, ret |-> getToken(env)]>>
    /\ UNCHANGED <<env, pc, attempt, requests, waits, outcomes, result, hasCall,
                   validateVars, storeVars, genVars, cliVars>>

\* a direct call of hasToken()
CallHasToken ==
    /\ pc = "idle"
    /\ hasCall = <<>>
    /\ hasCall' = <<[env |-> env, ret |-> hasToken(env)]>>
    /\ UNCHANGED <<env, pc, attempt, requests, waits, outcomes, result, tokenCall,
                   validateVars, storeVars, genVars, cliVars>>

(***************************************************************************)
(* lib/generator: generate(options)                                        *)
(* A message is the sequence of the pieces it is the concatenation of.     *)
(***************************************************************************)
\* the message getToken gives its AuthError
AuthErrorMessage ==
    << "GitHub token required",
       ". Set GITHUB_TOKEN or GH_TOKEN environment variable.\n",
       "Create a token at: https://github.com/settings/tokens" >>

\* error.message of what the credential resolver throws
ErrorMessage(e) == IF e = "AuthError" THEN AuthErrorMessage ELSE <<e>>

DEFAULT_API_URL == "https://api.grablin.com"

\* the two variants of a GenerationOutcome; an absent member is undefined,
\* fileCount is <<n>> or <<>>
Failure(error) == [success |-> FALSE, error |-> error]
Success(fileCount, outputPath, repoUrl, cloneCommand) ==
    [success |-> TRUE, fileCount |-> fileCount, outputPath |-> outputPath,
     repoUrl |-> repoUrl, cloneCommand |-> cloneCommand]

\* the options of a run; pushToGithub FALSE stands for false and for absent
OutputInputs == {Undefined, "", "/tmp/test"}
ApiUrlInputs == {Undefined, "https://api.test.com"}
GenerateOptions ==
    [apiUrl : ApiUrlInputs, output : OutputInputs, pushToGithub : BOOLEAN]

HasOutputOption_Always(options) == TRUE

\* output or pushToGithub is set
HasOutputOption(options) == Truthy(options.output) \/ options.pushToGithub

\* <apiUrl>/api/generate
GenerateUrl(options) ==
    << IF options.apiUrl = Undefined THEN DEFAULT_API_URL ELSE options.apiUrl,
       "/api/generate" >>

\* what the generation service can answer, and a transport failure
JsonSuccess(data) ==
    [kind |-> "json", ok |-> TRUE, status |-> "200", success |-> TRUE,
     fileCount |-> data.fileCount, repoUrl |-> data.repoUrl,
     cloneCommand |-> data.cloneCommand, error |-> Undefined, text |-> ""]
JsonFailure(error) ==
    [kind |-> "json", ok |-> TRUE, status |-> "200", success |-> FALSE,
     fileCount |-> <<>>, repoUrl |-> Undefined, cloneCommand |-> Undefined,
     error |-> error, text |-> ""]
Archive ==
    [kind |-> "binary", ok |-> TRUE, status |-> "200", success |-> TRUE,
     fileCount |-> <<>>, repoUrl |-> Undefined, cloneCommand |-> Undefined,
     error |-> Undefined, text |-> ""]
HttpError(status, text) ==
    [kind |-> "text", ok |-> FALSE, status |-> status, success |-> FALSE,
     fileCount |-> <<>>, repoUrl |-> Undefined, cloneCommand |-> Undefined,
     error |-> Undefined, text |-> text]
TransportError(message) ==
    [kind |-> "reject", ok |-> FALSE, status |-> "", success |-> FALSE,
     fileCount |-> <<>>, repoUrl |-> Undefined, cloneCommand |-> Undefined,
     error |-> message, text |-> ""]

GenerateOutcomes ==
    { JsonSuccess([fileCount |-> <<25>>,
                   repoUrl |-> "https://github.com/user/test-app",
                   cloneCommand |-> "git clone https://github.com/user/test-app.git"]),
      JsonSuccess([fileCount |-> <<10>>, repoUrl |-> Undefined,
                   cloneCommand |-> Undefined]),
      JsonFailure("Module not found"),
      JsonFailure("Quota exceeded"),
      Archive,
      HttpError("500", "Internal Server Error"),
      HttpError("404", "Not Found"),
      TransportError("Connection refused") }

ServiceError_Prefixed(response) == <<"Generation failed: ", response.error>>

\* the message of a 2xx JSON answer with success false: its error, verbatim
ServiceError(response) == <<response.error>>

\* step 5 and 6 of generate: the outcome for an answer
HandleResponse(options, response) ==
    IF response.kind = "reject" THEN Failure(<<response.error>>)
    ELSE IF ~response.ok
    THEN Failure(<<"API error (", response.status, "): ", response.text>>)
    ELSE IF response.kind = "binary"
    THEN Success(<<>>, options.output, Undefined, Undefined)
    ELSE IF ~response.success THEN Failure(ServiceError(response))
    ELSE Success(response.fileCount, Undefined, response.repoUrl,
                 response.cloneCommand)

\* generate(options) up to its first await: the credential check, the
\* output-option check and the dispatch of the POST
GenerateCall(options) ==
    LET headers == getAuthHeaders(env)
    IN  /\ gpc = "idle"
        /\ gcall' = <<[env |-> env, options |-> options]>>
        /\ IF headers.threw
           THEN /\ gres' = <<Failure(ErrorMessage(headers.value))>>
                /\ gpc' = "done"
                /\ gposts' = gposts
           ELSE IF ~HasOutputOption(options)
           THEN /\ gres' = <<Failure(<<"No output option specified">>)>>
                /\ gpc' = "done"
                /\ gposts' = gposts
           ELSE /\ gres' = gres
                /\ gpc' = "fetch"
                /\ gposts' = Append(gposts, [url |-> GenerateUrl(options),
                                             headers |-> headers.value])
        /\ UNCHANGED <<gresp, authVars, validateVars, storeVars, cliVars>>

\* a generate that posts again after a transport failure
GenerateRespond_Retry(response) ==
    /\ gpc = "fetch"
    /\ gresp' = <<response>>
    /\ IF response.kind = "reject" /\ Len(gposts) < 3
       THEN /\ gpc' = "fetch"
            /\ gposts' = Append(gposts, gposts[1])
            /\ gres' = gres
       ELSE /\ gpc' = "done"
            /\ gposts' = gposts
            /\ gres' = <<HandleResponse(gcall[1].options, response)>>
    /\ UNCHANGED <<gcall, authVars, validateVars, storeVars, cliVars>>

\* the POST settles and generate returns
GenerateRespond(response) ==
    /\ gpc = "fetch"
    /\ gpc' = "done"
    /\ gresp' = <<response>>
    /\ gres' = <<HandleResponse(gcall[1].options, response)>>
    /\ UNCHANGED <<gcall, gposts, authVars, validateVars, storeVars, cliVars>>

\* generate has not been called
GenerateIdle ==
    /\ gpc = "idle"
    /\ gcall = <<>>
    /\ gposts = <<>>
    /\ gresp = <<>>
    /\ gres = <<>>

(***************************************************************************)
(* lib/generator: listModules(apiUrl)                                      *)
(***************************************************************************)
\* <apiUrl>/api/modules
CatalogUrl(apiUrl) ==
    <<IF apiUrl = Undefined THEN DEFAULT_API_URL ELSE apiUrl, "/api/modules">>

\* the entries of the catalog
CodeReact == [id |-> "code-react", kind |-> "code", type |-> "react"]
ExtensionAuth0 == [id |-> "extension-auth0", kind |-> "extension", type |-> "auth0"]

\* what the catalog service can answer, and a transport failure
CatalogAnswer(modules) ==
    [kind |-> "json", ok |-> TRUE, status |-> "200", modules |-> modules,
     error |-> "", text |-> ""]
CatalogHttpError(status, text) ==
    [kind |-> "text", ok |-> FALSE, status |-> status, modules |-> <<>>,
     error |-> "", text |-> text]
CatalogTransportError(message) ==
    [kind |-> "reject", ok |-> FALSE, status |-> "", modules |-> <<>>,
     error |-> message, text |-> ""]
CatalogOutcomes ==
    { CatalogAnswer(<<CodeReact, ExtensionAuth0>>),
      CatalogAnswer(<<>>),
      CatalogHttpError("503", "Service Unavailable"),
      CatalogHttpError("404", ""),
      CatalogTransportError("Timeout") }

\* the two variants of the result: modules is <<list>> or <<>>, error is a
\* message or <<>>
CatalogSuccess(modules) == [success |-> TRUE, modules |-> <<modules>>, error |-> <<>>]
CatalogFailure(error) == [success |-> FALSE, modules |-> <<>>, error |-> error]

CatalogErrorMessage_WithBody(response) ==
    <<"API error (", response.status, "): ", response.text>>

\* the message for a non-2xx answer
CatalogErrorMessage(response) == <<"API error (", response.status, ")">>

\* the result for an answer
CatalogResult(response) ==
    IF response.kind = "reject" THEN CatalogFailure(<<response.error>>)
    ELSE IF ~response.ok THEN CatalogFailure(CatalogErrorMessage(response))
    ELSE CatalogSuccess(response.modules)

\* listModules(apiUrl) up to its await: the GET is issued
ListModulesCall(apiUrl) ==
    /\ lmpc = "idle"
    /\ lmpc' = "fetch"
    /\ lmgets' = Append(lmgets, CatalogUrl(apiUrl))
    /\ UNCHANGED <<lmresp, lmres, authVars, validateVars, storeVars, genVars,
                   commandVars, initVars, listVars>>

\* the GET settles and listModules returns
ListModulesRespond(response) ==
    /\ lmpc = "fetch"
    /\ lmpc' = "done"
    /\ lmresp' = <<response>>
    /\ lmres' = <<CatalogResult(response)>>
    /\ UNCHANGED <<lmgets, authVars, validateVars, storeVars, genVars,
                   commandVars, initVars, listVars>>

\* listModules has not been called
CatalogIdle ==
    /\ lmpc = "idle"
    /\ lmgets = <<>>
    /\ lmresp = <<>>
    /\ lmres = <<>>

(***************************************************************************)
(* commands/generate: the action of the generate command                   *)
(***************************************************************************)
\* the options commander hands to the action
CommandOptions ==
    [output : OutputInputs, pushToGithub : BOOLEAN, quiet : BOOLEAN, verbose : BOOLEAN]

\* configurations a configuration file can hold: valid, valid with
\* warnings, invalid, invalid with warnings, and one validateConfig throws on
WarningsOnlyConfig == [ValidConfig EXCEPT !.modules = Arr(<<>>), !.environments = JsUndefined]
InvalidConfig == [ValidConfig EXCEPT !.projectName = JsUndefined]
InvalidWarningsConfig == [InvalidConfig EXCEPT !.environments = JsUndefined]
NullModuleConfig == [ValidConfig EXCEPT !.modules = Arr(<<JsNull>>)]
CommandConfigs ==
    {ValidConfig, WarningsOnlyConfig, InvalidConfig, InvalidWarningsConfig,
     NullModuleConfig}

\* what the awaited loadConfig can settle to
CommandLoadOutcomes ==
    {Returned(JsNull), Threw(ParseFailure([message |-> "Unexpected token"]))}
    \cup {Returned(c) : c \in CommandConfigs}

\* what the awaited generate can settle to
CommandGenerateResults ==
    {Failure(AuthErrorMessage), Failure(<<"Connection refused">>),
     Success(<<25>>, Undefined, "https://github.com/user/test-app", Undefined),
     Success(<<>>, "/tmp/test", Undefined, Undefined)}

\* !options.output && !options.pushToGithub
NoOutputOption(options) == ~Truthy(options.output) /\ ~options.pushToGithub

ValidationPasses_IgnoresErrors(validation) == ~validation.threw

\* validateConfig returned and validation.valid holds; a throw goes to the
\* catch clause
ValidationPasses(validation) == ~validation.threw /\ validation.value.valid

\* process.exit(1)
CommandExits(events) ==
    /\ cpc' = "exit"
    /\ cevents' = Append(events, "exit")
    /\ cstatus' = <<1>>

\* the action up to its first await: the option check, then loadConfig
CommandStart(options) ==
    /\ cpc = "idle"
    /\ copts' = <<options>>
    /\ IF NoOutputOption(options)
       THEN CommandExits(cevents)
       ELSE /\ cpc' = "load"
            /\ cevents' = Append(cevents, "loadConfig")
            /\ cstatus' = cstatus
    /\ UNCHANGED <<cload, authVars, validateVars, storeVars, genVars,
                   catalogVars, initVars, listVars>>

\* loadConfig settles: the null test, validateConfig, the validity test,
\* then generate up to its await
CommandLoaded(outcome) ==
    /\ cpc = "load"
    /\ cload' = <<outcome>>
    /\ IF outcome.threw \/ outcome.value = JsNull
       THEN /\ CommandExits(cevents)
            /\ UNCHANGED validateVars
       ELSE LET validation == validateConfig(outcome.value)
                called == Append(cevents, "validateConfig")
            IN  /\ config' = outcome.value
                /\ vres' = <<validation>>
                /\ IF ValidationPasses(validation)
                   THEN /\ cpc' = "generate"
                        /\ cevents' = Append(called, "generate")
                        /\ cstatus' = cstatus
                   ELSE CommandExits(called)
    /\ UNCHANGED <<copts, authVars, storeVars, genVars, catalogVars, initVars,
                   listVars>>

\* generate settles: exit 1 on a failure, the normal end otherwise
CommandGenerated(generated) ==
    /\ cpc = "generate"
    /\ IF ~generated.success
       THEN CommandExits(cevents)
       ELSE /\ cpc' = "exit"
            /\ cevents' = cevents
            /\ cstatus' = <<0>>
    /\ UNCHANGED <<copts, cload, authVars, validateVars, storeVars, genVars,
                   catalogVars, initVars, listVars>>

(***************************************************************************)
(* commands/init: the action of the init command                           *)
(***************************************************************************)
\* --config: commander's default or a given file
ConfigOptionInputs == {"grablin.json", "custom.json"}

\* existingContent after the try around fs.readFile: null (<<>>) on ENOENT
ReadExisting(fs, absolutePath) ==
    IF readFile(fs, absolutePath).threw THEN <<>> ELSE <<fs[absolutePath]>>

NeedsConfirmation_Never(existing, force) == FALSE

\* existingContent !== null && !options.force
NeedsConfirmation(existing, force) == existing # <<>> /\ ~force

\* the action up to its second await: the read of the file, then
\* confirmOverwrite or promptForConfig
InitStart(configOption, force) ==
    LET absolutePath == pathResolve(getConfigPath(configOption))
        existing == ReadExisting(files, absolutePath)
    IN  /\ ipc = "idle"
        /\ iforce' = force
        /\ ipath' = absolutePath
        /\ iexisting' = existing
        /\ IF NeedsConfirmation(existing, force)
           THEN /\ ipc' = "confirm"
                /\ ievents' = Append(ievents, "confirmOverwrite")
           ELSE /\ ipc' = "prompt"
                /\ ievents' = Append(ievents, "promptForConfig")
        /\ UNCHANGED <<ianswer, ireplaced, authVars, validateVars, storeVars, genVars,
                       catalogVars, commandVars, listVars>>

\* confirmOverwrite settles: 'Cancelled' and return, or promptForConfig
InitConfirmed(overwrite) ==
    /\ ipc = "confirm"
    /\ ianswer' = <<overwrite>>
    /\ IF ~overwrite
       THEN ipc' = "done" /\ ievents' = ievents
       ELSE ipc' = "prompt" /\ ievents' = Append(ievents, "promptForConfig")
    /\ UNCHANGED <<iforce, ipath, iexisting, ireplaced, authVars, validateVars,
                   storeVars, genVars, catalogVars, commandVars, listVars>>

\* promptForConfig settles with c: saveConfig(c, configPath) writes the
\* file, or the write fails (ok) and the catch clause exits
InitPrompted(c, ok) ==
    /\ ipc = "prompt"
    /\ ipc' = "done"
    /\ ievents' = Append(ievents, "saveConfig")
    /\ ireplaced' = IF ok THEN <<files[ipath]>> ELSE ireplaced
    /\ files' = IF ok
                THEN [files EXCEPT ![ipath] = JSONstringify(configWithVersion(c))]
                ELSE files
    /\ sres' = IF ok THEN <<Returned(ipath)>>
               ELSE <<Threw([message |-> "EACCES: permission denied"])>>
    /\ written' = IF ok THEN [written EXCEPT ![ipath] = <<c>>] ELSE written
    /\ UNCHANGED <<lpc, lpath, lfrom, lseen, lres, iforce, ipath, iexisting, ianswer,
                   authVars, validateVars, genVars, catalogVars, commandVars,
                   listVars>>

(***************************************************************************)
(* commands/list: groupByKind                                              *)
(***************************************************************************)
MaxCatalog == 3

\* the kind of a catalog entry as the service sends it: the four known
\* kinds, a missing or empty one, the word unknown, a kind the command does
\* not know, and the name of a property every object inherits
CatalogKinds ==
    {"code", "extension", "provider", "vcs", Undefined, "", "unknown", "database",
     "constructor"}

\* the catalog entries for a sequence of kinds; id is the place in the catalog
ModulesOfKinds(kinds) == [i \in 1..Len(kinds) |-> [id |-> i, kind |-> kinds[i]]]

\* the non-empty lists the list command hands to groupByKind
RECURSIVE KindSeqs(_)
KindSeqs(n) ==
    IF n = 0 THEN {<<>>}
    ELSE {Append(ks, k) : ks \in KindSeqs(n - 1), k \in CatalogKinds}
GroupInputs(max) ==
    {ModulesOfKinds(ks) : ks \in UNION {KindSeqs(n) : n \in 1..max}}

\* module.kind || 'unknown'
GroupKey(module) == JsOr(module.kind, "unknown")

\* groups[kind] of the empty object literal is inherited and no array
InheritedKeys == {"constructor"}

priority == <<"code", "extension", "provider", "vcs", "unknown">>

\* groups[kind] after the first loop
GroupOf(modules, kind) == SelectSeq(modules, LAMBDA m : GroupKey(m) = kind)

\* the second loop from priority[i] on: the entries of sorted, in order
RECURSIVE SortedFrom(_, _)
SortedFrom(modules, i) ==
    IF i > Len(priority) THEN <<>>
    ELSE LET items == GroupOf(modules, priority[i])
         IN  (IF Len(items) > 0 THEN <<[kind |-> priority[i], items |-> items]>>
              ELSE <<>>) \o SortedFrom(modules, i + 1)

\* groupByKind(modules): Object.entries of the result, or the TypeError of
\* push on an inherited property
groupByKind(modules) ==
    IF \E i \in 1..Len(modules) : GroupKey(modules[i]) \in InheritedKeys
    THEN Threw("TypeError")
    ELSE Returned(SortedFrom(modules, 1))

\* the list command groups the filtered catalog
GroupByKind ==
    /\ lgroups = <<>>
    /\ lgroups' = <<groupByKind(lmods)>>
    /\ UNCHANGED <<lmods, authVars, validateVars, storeVars, genVars, catalogVars,
                   commandVars, initVars>>

\* no command has run
CommandsIdle ==
    /\ CatalogIdle
    /\ cpc = "idle" /\ copts = <<>> /\ cload = <<>> /\ cevents = <<>> /\ cstatus = <<>>
    /\ ipc = "idle" /\ iforce = FALSE /\ ipath = "/cwd/grablin.json"
    /\ iexisting = <<>> /\ ianswer = <<>> /\ ireplaced = <<>> /\ ievents = <<>>

CliIdle ==
    /\ CommandsIdle
    /\ lmods = <<>> /\ lgroups = <<>>

\* no file exists, nothing has been saved or loaded
StoreIdle ==
    /\ files = [a \in AbsolutePaths |-> Missing]
    /\ sres = <<>>
    /\ written = [a \in AbsolutePaths |-> <<>>]
    /\ lpc = "idle"
    /\ lpath = "/cwd/grablin.json"
    /\ lfrom = <<>>
    /\ lseen = Missing
    /\ lres = Returned(JsUndefined)

Init ==
    /\ env \in Envs
    /\ pc = "idle"
    /\ attempt = 0
    /\ requests = 0
    /\ waits = <<>>
    /\ outcomes = <<>>
    /\ result = Pending
    /\ tokenCall = <<>>
    /\ hasCall = <<>>
    /\ config = ValidConfig
    /\ vres = <<>>
    /\ StoreIdle
    /\ GenerateIdle
    /\ CliIdle

Next ==
    \/ Call
    \/ \E o \in FetchOutcomes : Respond(o)
    \/ TimerFires
    \/ \E e \in Envs : EnvChange(e)
    \/ CallGetToken
    \/ CallHasToken

Spec == Init /\ [][Next]_vars

\* the event loop settles a pending fetch and fires a pending timer
FairSpec ==
    /\ Spec
    /\ WF_vars(\E o \in FetchOutcomes : Respond(o))
    /\ WF_vars(TimerFires)

\* validateConfig(config) is called
Validate ==
    /\ vres = <<>>
    /\ vres' = <<validateConfig(config)>>
    /\ UNCHANGED <<config, authVars, storeVars, genVars, cliVars>>

InitValidate ==
    /\ env = [GITHUB_TOKEN |-> Undefined, GH_TOKEN |-> Undefined]
    /\ pc = "idle"
    /\ attempt = 0
    /\ requests = 0
    /\ waits = <<>>
    /\ outcomes = <<>>
    /\ result = Pending
    /\ tokenCall = <<>>
    /\ hasCall = <<>>
    /\ config \in ConfigInputs(MaxModules)
    /\ vres = <<>>
    /\ StoreIdle
    /\ GenerateIdle
    /\ CliIdle

NextValidate == Validate

SpecValidate == InitValidate /\ [][NextValidate]_vars

\* the configuration file: saves, loads, and other programs changing the file
InitStore ==
    /\ env = [GITHUB_TOKEN |-> Undefined, GH_TOKEN |-> Undefined]
    /\ pc = "idle"
    /\ attempt = 0
    /\ requests = 0
    /\ waits = <<>>
    /\ outcomes = <<>>
    /\ result = Pending
    /\ tokenCall = <<>>
    /\ hasCall = <<>>
    /\ config = ValidConfig
    /\ vres = <<>>
    /\ StoreIdle
    /\ GenerateIdle
    /\ CliIdle

NextStore ==
    \/ \E c \in SaveInputs, p \in PathInputs, ok \in BOOLEAN : SaveConfig(c, p, ok)
    \/ \E p \in PathInputs : LoadProbe(p)
    \/ LoadRead
    \/ \E a \in AbsolutePaths, content \in {Missing, NotJson} : FileChange(a, content)

SpecStore == InitStore /\ [][NextStore]_vars

\* one run of generate and one of listModules in an environment
InitGenerate ==
    /\ env \in Envs
    /\ pc = "idle"
    /\ attempt = 0
    /\ requests = 0
    /\ waits = <<>>
    /\ outcomes = <<>>
    /\ result = Pending
    /\ tokenCall = <<>>
    /\ hasCall = <<>>
    /\ config = ValidConfig
    /\ vres = <<>>
    /\ StoreIdle
    /\ GenerateIdle
    /\ CliIdle

NextGenerate ==
    \/ \E options \in GenerateOptions : GenerateCall(options)
    \/ \E response \in GenerateOutcomes : GenerateRespond(response)
    \/ \E apiUrl \in ApiUrlInputs : ListModulesCall(apiUrl)
    \/ \E response \in CatalogOutcomes : ListModulesRespond(response)

SpecGenerate == InitGenerate /\ [][NextGenerate]_vars

\* one run of the generate command
InitCommand == InitStore

NextCommand ==
    \/ \E options \in CommandOptions : CommandStart(options)
    \/ \E outcome \in CommandLoadOutcomes : CommandLoaded(outcome)
    \/ \E generated \in CommandGenerateResults : CommandGenerated(generated)

SpecCommand == InitCommand /\ [][NextCommand]_vars

\* a configuration file another program or an earlier run left
ExistingConfigText ==
    JSONstringify(configWithVersion([projectName |-> "TestApp", domain |-> "b.org"]))

\* one run of the init command in a directory that may hold files already
InitInit ==
    /\ env = [GITHUB_TOKEN |-> Undefined, GH_TOKEN |-> Undefined]
    /\ pc = "idle"
    /\ attempt = 0
    /\ requests = 0
    /\ waits = <<>>
    /\ outcomes = <<>>
    /\ result = Pending
    /\ tokenCall = <<>>
    /\ hasCall = <<>>
    /\ config = ValidConfig
    /\ vres = <<>>
    /\ files \in [AbsolutePaths -> {Missing, NotJson, ExistingConfigText}]
    /\ sres = <<>>
    /\ written = [a \in AbsolutePaths |-> <<>>]
    /\ lpc = "idle"
    /\ lpath = "/cwd/grablin.json"
    /\ lfrom = <<>>
    /\ lseen = Missing
    /\ lres = Returned(JsUndefined)
    /\ GenerateIdle
    /\ CliIdle

NextInit ==
    \/ \E configOption \in ConfigOptionInputs, force \in BOOLEAN :
           InitStart(configOption, force)
    \/ \E overwrite \in BOOLEAN : InitConfirmed(overwrite)
    \/ \E c \in SaveInputs, ok \in BOOLEAN : InitPrompted(c, ok)

\* the init command alone
SpecInit == InitInit /\ [][NextInit]_vars

\* the init command and another process that creates, changes or removes
\* the files
NextInitShared ==
    \/ NextInit
    \/ \E a \in AbsolutePaths, content \in {Missing, NotJson, ExistingConfigText} :
           FileChange(a, content)

SpecInitShared == InitInit /\ [][NextInitShared]_vars

\* groupByKind applied to the catalogs of at most MaxCatalog entries
InitList ==
    /\ env = [GITHUB_TOKEN |-> Undefined, GH_TOKEN |-> Undefined]
    /\ pc = "idle"
    /\ attempt = 0
    /\ requests = 0
    /\ waits = <<>>
    /\ outcomes = <<>>
    /\ result = Pending
    /\ tokenCall = <<>>
    /\ hasCall = <<>>
    /\ config = ValidConfig
    /\ vres = <<>>
    /\ StoreIdle
    /\ GenerateIdle
    /\ CommandsIdle
    /\ lmods \in GroupInputs(MaxCatalog)
    /\ lgroups = <<>>

NextList == GroupByKind

SpecList == InitList /\ [][NextList]_vars

(***************************************************************************)
(* Claims about the credential resolver                                    *)
(***************************************************************************)
\* a 5xx response or a thrown transport error
IsServerOrTransportFailure(o) == o = NetworkError \/ (~o.threw /\ o.status >= 500 /\ o.status <= 599)

\* a 4xx response
Is4xx(o) == ~o.threw /\ o.status >= 400 /\ o.status <= 499

\* the number of attempts that reached fetch()
FetchesRecorded == Cardinality({i \in 1..Len(outcomes) : outcomes[i] # HeaderError})

AllAttemptsFailedTransiently ==
    /\ pc = "done"
    /\ Len(outcomes) > 0
    /\ \A i \in 1..Len(outcomes) : IsServerOrTransportFailure(outcomes[i])

\* C1: with a credential present getGitHubUser issues at most 3 requests whatever the
\* attempts' outcomes are, every started call completes, and when every attempt ends
\* in a 5xx response or a transport error it issues exactly 3 requests and returns null.
C1_RequestBudget ==
    /\ [](requests <= 3)
    /\ [](AllAttemptsFailedTransiently => requests = 3 /\ result = Fulfilled(Null))
    /\ [](pc \in {"fetch", "sleep"} => <>(pc = "done"))

C1_Witness ==
    /\ AllAttemptsFailedTransiently
    /\ Len(outcomes) = 3
    /\ requests = 3
    /\ result = Fulfilled(Null)

\* C2: a 4xx response on any attempt ends the call at once with null: it is the last
\* outcome, every request issued so far has been answered (none follows it) and the
\* only waits are those of the attempts before it.
C2_ClientErrorStops ==
    \A i \in 1..Len(outcomes) :
        Is4xx(outcomes[i]) =>
            /\ i = Len(outcomes)
            /\ pc = "done"
            /\ result = Fulfilled(Null)
            /\ requests = FetchesRecorded
            /\ Len(waits) = i - 1

C2_Witness ==
    /\ Len(outcomes) = 2
    /\ Is4xx(outcomes[2])
    /\ requests = 2
    /\ pc = "done"

\* C3 as stated: the failure of each attempt k in {0,1,2} is followed by a wait of
\* baseDelay * 2^k, so three failed attempts wait 1x, 2x and 4x the base delay.
C3_WaitsAfterEveryAttempt ==
    AllAttemptsFailedTransiently => waits = <<baseDelay, 2 * baseDelay, 4 * baseDelay>>

\* C3 amended: the failure of attempt k is followed by a wait of baseDelay * 2^k for
\* k in {0,1} only; the failure of the last attempt (k = 2) is followed by no wait, so
\* three failed attempts wait 1x and 2x the base delay.
C3_BackoffBeforeRetryOnly ==
    /\ Len(waits) <= 2
    /\ \A i \in 1..Len(waits) : waits[i] = 1000 * 2^(i - 1)
    /\ \A i \in 1..Len(outcomes) :
           IsServerOrTransportFailure(outcomes[i]) => (i <= 2 => Len(waits) >= i)
    /\ AllAttemptsFailedTransiently => waits = <<1000, 2000>>

C3_Witness ==
    /\ AllAttemptsFailedTransiently
    /\ Len(outcomes) = 3
    /\ waits = <<1000, 2000>>

\* C4: getGitHubUser never raises: the promise it returns is never rejected.
C4_NeverRejects == result.state # "rejected"

\* C5: called with neither credential variable holding a non-empty value,
\* getGitHubUser returns null and issues no request.
C5_NoCredentialNoRequest ==
    [][(pc = "idle" /\ pc' # "idle"
        /\ ~(env.GITHUB_TOKEN \notin {Undefined, ""})
        /\ ~(env.GH_TOKEN \notin {Undefined, ""}))
       => (pc' = "done" /\ result' = Fulfilled(Null) /\ requests' = 0)]_vars

C5_Witness ==
    /\ pc = "done"
    /\ env.GITHUB_TOKEN \in {Undefined, ""}
    /\ env.GH_TOKEN \in {Undefined, ""}
    /\ outcomes = <<>>
    /\ requests = 0
    /\ result = Fulfilled(Null)

\* a credential variable is set when it holds a non-empty value: an empty string
\* counts as absent
IsSet(v) == v \notin {Undefined, ""}

\* C6: with both variables set getToken returns the value of GITHUB_TOKEN, and it
\* throws AuthError only when neither is set.
C6_PrimaryWins ==
    tokenCall # <<>> =>
        LET c == tokenCall[1]
        IN  /\ (IsSet(c.env.GITHUB_TOKEN) /\ IsSet(c.env.GH_TOKEN)
                   => c.ret = Returned(c.env.GITHUB_TOKEN))
            /\ (c.ret.threw
                   => c.ret.value = "AuthError"
                      /\ ~IsSet(c.env.GITHUB_TOKEN) /\ ~IsSet(c.env.GH_TOKEN))

C6_Witness ==
    /\ tokenCall # <<>>
    /\ tokenCall[1].env = [GITHUB_TOKEN |-> "ghp_primary", GH_TOKEN |-> "ghp_secondary"]
    /\ tokenCall[1].ret = Returned("ghp_primary")

\* C7: for every combination of the two variables being unset, empty or non-empty,
\* hasToken returns true exactly when getToken and getAuthHeaders return without
\* throwing, and hasToken itself returns a boolean.
C7_ProbeAgreesWithResolver ==
    (hasCall # <<>> /\ tokenCall # <<>>) =>
        /\ hasCall[1].env = tokenCall[1].env
        /\ hasCall[1].ret \in BOOLEAN
        /\ hasCall[1].ret <=> ~tokenCall[1].ret.threw
        /\ hasCall[1].ret <=> ~getAuthHeaders(hasCall[1].env).threw

C7_Witness ==
    /\ hasCall # <<>>
    /\ tokenCall # <<>>
    /\ hasCall[1].env = [GITHUB_TOKEN |-> "", GH_TOKEN |-> Undefined]
    /\ hasCall[1].ret = FALSE
    /\ tokenCall[1].ret.threw

(***************************************************************************)
(* Claims about the schema validator                                       *)
(***************************************************************************)
Range(f) == {f[i] : i \in DOMAIN f}

\* validateConfig was called and returned
Validated == vres # <<>> /\ ~vres[1].threw

W_Empty == "No modules specified - project will be empty"
W_NoCode == "No code modules (frontend/backend) specified"
W_NoEnvironments == "No environments specified, using defaults (dev, staging, prod)"

\* the messages of the validator that contain the word "empty"
ContainsEmpty(m) == m.text = W_Empty

ModulesIsEmptyArray(c) == c.modules.t = "array" /\ Len(c.modules.items) = 0

NoModuleOfKindCode(c) ==
    /\ c.modules.t = "array"
    /\ Len(c.modules.items) > 0
    /\ \A i \in 1..Len(c.modules.items) :
           FieldsOf(c.modules.items[i]).kind # Name("code")

EnvironmentsMissingOrNoSequence(c) == c.environments.t # "array"

\* C8: validateConfig returns valid = true if and only if its errors list is empty;
\* each warning-only condition (empty modules, no module of kind code, environments
\* missing or no sequence) adds its warning and no error, and neither the errors nor
\* valid depend on the environments.
C8_ValidIffNoErrors ==
    Validated =>
        LET r == vres[1].value
            withEnvs == validateConfig([config EXCEPT !.environments = Arr(<<Str(<<"d", "e", "v">>)>>)]).value
        IN  /\ r.valid \in BOOLEAN
            /\ r.valid <=> (r.errors = <<>>)
            /\ \A e \in Range(r.errors) : e.text \notin {W_Empty, W_NoCode, W_NoEnvironments}
            /\ ModulesIsEmptyArray(config) =>
                   /\ \E w \in Range(r.warnings) : w.text = W_Empty
                   /\ \A e \in Range(r.errors) : e.field # "modules" /\ e.index = -1
            /\ NoModuleOfKindCode(config) => \E w \in Range(r.warnings) : w.text = W_NoCode
            /\ EnvironmentsMissingOrNoSequence(config) =>
                   /\ \E w \in Range(r.warnings) : w.text = W_NoEnvironments
                   /\ \A e \in Range(r.errors) : e.field # "environments"
            /\ withEnvs.errors = r.errors
            /\ withEnvs.valid = r.valid

C8_Witness ==
    /\ Validated
    /\ vres[1].value.valid
    /\ EnvironmentsMissingOrNoSequence(config)
    /\ NoModuleOfKindCode(config)
    /\ Len(vres[1].value.warnings) = 2

\* C9 as stated: for every configuration whose modules sequence is empty,
\* validateConfig yields valid = true and a warning containing "empty".
C9_EmptyModulesAlwaysValid ==
    (Validated /\ ModulesIsEmptyArray(config)) =>
        /\ vres[1].value.valid = TRUE
        /\ \E w \in Range(vres[1].value.warnings) : ContainsEmpty(w)

\* C9 amended: for every configuration whose modules sequence is empty,
\* validateConfig yields a warning containing "empty", and valid = true exactly when
\* projectName, domain and owner pass their rules.
C9_EmptyModulesWarns ==
    (Validated /\ ModulesIsEmptyArray(config)) =>
        /\ \E w \in Range(vres[1].value.warnings) : ContainsEmpty(w)
        /\ vres[1].value.valid <=>
               \A e \in Range(vres[1].value.errors) :
                   e.field \notin {"projectName", "domain", "owner"}
        /\ (/\ config.projectName = Str(S_TestApp)
            /\ config.domain = Str(S_test_com)
            /\ config.owner = Str(S_owner)) => vres[1].value.valid

C9_Witness ==
    /\ Validated
    /\ ModulesIsEmptyArray(config)
    /\ vres[1].value.valid
    /\ \E w \in Range(vres[1].value.warnings) : ContainsEmpty(w)

\* C10: for every domain longer than 253 characters the errors include the length
\* error, whether or not the domain passes the grammar or has over-long labels.
C10_LengthErrorForEveryLongDomain ==
    (Validated /\ config.domain.t = "string" /\ Len(config.domain.chars) > 253) =>
        \E e \in Range(vres[1].value.errors) :
            e.text = "domain name too long (max 253 characters)"

\* the elements of config.modules, when it is an array
ModuleItems == IF config.modules.t = "array" THEN config.modules.items ELSE <<>>

\* C11: for every domain in which some dot-separated label is longer than 63
\* characters the errors include the label-length error, independently of the
\* grammar and total-length checks.
C11_LabelErrorForEveryLongLabel ==
    (/\ Validated
     /\ config.domain.t = "string"
     /\ \E ab \in Segments(config.domain.chars, 1, ".") : ab[2] - ab[1] - 1 > 63) =>
        \E e \in Range(vres[1].value.errors) :
            e.text = "domain label too long (max 63 characters per label)"

\* the moduleId contains "--" or ends in "-"
HasBadHyphen(id) ==
    /\ id.t = "string"
    /\ \/ (Len(id.chars) >= 1 /\ id.chars[Len(id.chars)] = "-")
       \/ \E k \in 1..(Len(id.chars) - 1) : id.chars[k] = "-" /\ id.chars[k + 1] = "-"

\* C12: every module whose moduleId contains "--" or ends in "-" yields at least one
\* error naming modules[i].moduleId, whatever its kind and type are.
C12_HyphenRuleAlwaysReported ==
    Validated =>
        \A i \in 1..Len(ModuleItems) :
            HasBadHyphen(FieldsOf(ModuleItems[i]).moduleId) =>
                \E e \in Range(vres[1].value.errors) :
                    e.index = i - 1 /\ e.field = "moduleId"

C12_Witness ==
    /\ Validated
    /\ Len(ModuleItems) = 2
    /\ FieldsOf(ModuleItems[2]).moduleId = Str(<<"A", "-", "-">>)
    /\ FieldsOf(ModuleItems[2]).kind = JsUndefined
    /\ \E e \in Range(vres[1].value.errors) : e.index = 1 /\ e.field = "moduleId"

\* lowercase, starts with a letter, only letters, digits and hyphens, 1-100
\* characters, no trailing hyphen, no doubled hyphen
WellFormedModuleId(id) ==
    /\ id.t = "string"
    /\ Len(id.chars) \in 1..100
    /\ id.chars[1] \in Lower
    /\ \A k \in 1..Len(id.chars) : id.chars[k] \in Lower \cup Digit \cup {"-"}
    /\ ~HasBadHyphen(id)

\* the module passes the kind, type and moduleId rules
PassesFieldRules(m) ==
    /\ m.kind \in {Name("code"), Name("extension"), Name("provider"), Name("vcs")}
    /\ m.type.t = "string" /\ m.type # Name("")
    /\ WellFormedModuleId(m.moduleId)

\* C13: in a non-empty modules sequence an element that fails the kind, type or
\* moduleId rule contributes at least one error prefixed modules[i]. with its own index
\* and valid is false; an element passing all three contributes no error.
C13_ModuleNeverPartiallyValid ==
    Validated =>
        \A i \in 1..Len(ModuleItems) :
            IF PassesFieldRules(FieldsOf(ModuleItems[i]))
            THEN \A e \in Range(vres[1].value.errors) : e.index # i - 1
            ELSE /\ \E e \in Range(vres[1].value.errors) : e.index = i - 1
                 /\ vres[1].value.valid = FALSE

C13_Witness ==
    /\ Validated
    /\ Len(ModuleItems) = 2
    /\ PassesFieldRules(FieldsOf(ModuleItems[1]))
    /\ ~PassesFieldRules(FieldsOf(ModuleItems[2]))
    /\ \A e \in Range(vres[1].value.errors) : e.index = 1
    /\ vres[1].value.valid = FALSE

\* C14: validation failures are data: for every parsed JSON document, including a
\* modules sequence with null or non-object elements, validateConfig returns a
\* ValidationResult and does not throw.
C14_ValidateNeverThrows == vres # <<>> => ~vres[1].threw

(***************************************************************************)
(* Claims about the configuration file                                     *)
(***************************************************************************)
\* a load has finished that began on a file saveConfig(c) wrote and nothing
\* touched since
LoadedAfterSave == lpc = "done" /\ lfrom # <<>>

\* c.version is undefined: the key is absent or its value is undefined
VersionUnset(c) == Get(c, "version") = Undefined

\* C15: round trip. A load(p) that follows save(c, p), c.version unset,
\* yields a document whose version is "1.0" and whose projectName and
\* domain are those of c.
C15_RoundTrip ==
    (LoadedAfterSave /\ VersionUnset(lfrom[1])) =>
        /\ ~lres.threw
        /\ lres.value # JsNull
        /\ Get(lres.value, "version") = "1.0"
        /\ Get(lres.value, "projectName") = Get(lfrom[1], "projectName")
        /\ Get(lres.value, "domain") = Get(lfrom[1], "domain")

\* C16: a file that holds what saveConfig(c) wrote carries a version: the
\* one of c when c supplies one, "1.0" otherwise (a version key with the
\* value undefined included).
C16_PersistedVersion ==
    \A a \in AbsolutePaths :
        written[a] # <<>> =>
            /\ files[a].t = "json"
            /\ "version" \in DOMAIN files[a].members
            /\ files[a].members["version"] =
                   IF VersionUnset(written[a][1]) THEN "1.0"
                   ELSE written[a][1]["version"]

\* the outcomes of loadConfig
ReturnsNone == ~lres.threw /\ lres.value = JsNull
RaisesParseFailure ==
    lres.threw /\ lres.value.prefix = "Failed to parse config file: "

\* C17: a finished load returned none iff the file does not exist, raised
\* the parse failure iff the file exists and does not parse, and returned
\* the parsed document otherwise; the file is what the load last saw of it.
C17_ThreeOutcomes ==
    lpc = "done" =>
        /\ ReturnsNone <=> lseen = Missing
        /\ RaisesParseFailure <=> lseen = NotJson
        /\ (lseen # Missing /\ lseen # NotJson) =>
               (~lres.threw /\ lres.value = lseen.members)

(***************************************************************************)
(* Claims about the generation run                                         *)
(***************************************************************************)
\* a message contains the text
Contains(message, text) == \E i \in 1..Len(message) : message[i] = text

\* generate was called while no credential was present
CalledWithoutCredential == gcall # <<>> /\ ~hasToken(gcall[1].env)

\* C18: when no credential is present generate returns a Failure whose
\* message contains "GitHub token required" and issues no request,
\* whatever the output options.
C18_NoCredentialFailsFast ==
    CalledWithoutCredential =>
        /\ gpc = "done"
        /\ ~gres[1].success
        /\ Contains(gres[1].error, "GitHub token required")
        /\ gposts = <<>>

\* the case where the output-option check would fail as well
C18_Witness ==
    /\ CalledWithoutCredential
    /\ ~HasOutputOption(gcall[1].options)
    /\ gpc = "done"
    /\ ~gres[1].success

\* generate was called with a credential and neither output nor pushToGithub
CalledWithoutOutputOption ==
    /\ gcall # <<>>
    /\ hasToken(gcall[1].env)
    /\ ~Truthy(gcall[1].options.output)
    /\ ~gcall[1].options.pushToGithub

\* C19: with a credential and neither output nor pushToGithub set, generate
\* returns the Failure "No output option specified" and dispatches nothing.
C19_NoOutputOption ==
    CalledWithoutOutputOption =>
        /\ gpc = "done"
        /\ gres = <<Failure(<<"No output option specified">>)>>
        /\ gposts = <<>>

C19_Witness ==
    /\ CalledWithoutOutputOption
    /\ gpc = "done"
    /\ gcall[1].options.output = ""

\* the POST was answered 2xx with a JSON body whose success is false
AnsweredSuccessFalse ==
    /\ gresp # <<>>
    /\ gresp[1].kind = "json"
    /\ gresp[1].ok
    /\ ~gresp[1].success

\* C20: a 2xx JSON answer with success false gives a Failure whose message
\* is the answer's error string, exactly.
C20_ServiceErrorVerbatim ==
    AnsweredSuccessFalse =>
        /\ gpc = "done"
        /\ gres = <<Failure(<<gresp[1].error>>)>>

C20_Witness ==
    /\ AnsweredSuccessFalse
    /\ gresp[1].error = "Module not found"
    /\ gres = <<Failure(<<"Module not found">>)>>

\* the POST failed at transport level / was answered non-2xx
TransportFailed == gresp # <<>> /\ gresp[1].kind = "reject"
AnsweredNon2xx == gresp # <<>> /\ gresp[1].kind # "reject" /\ ~gresp[1].ok

\* C21: generate returns a Failure and never retries: a transport failure
\* gives, after exactly one request, the exception's message; a non-2xx
\* answer gives, after exactly one request, 'API error (<status>): <body>'.
C21_FailureAfterOneRequest ==
    /\ Len(gposts) <= 1
    /\ TransportFailed =>
          /\ gpc = "done"
          /\ gres = <<Failure(<<gresp[1].error>>)>>
          /\ Len(gposts) = 1
    /\ AnsweredNon2xx =>
          /\ gpc = "done"
          /\ gres = <<Failure(<<"API error (", gresp[1].status, "): ", gresp[1].text>>)>>
          /\ Len(gposts) = 1

C21_Witness ==
    /\ TransportFailed
    /\ gres = <<Failure(<<"Connection refused">>)>>
    /\ Len(gposts) = 1

\* the locations a successful outcome names
HasOutputPath == gres[1].outputPath # Undefined
HasRepoUrl == gres[1].repoUrl # Undefined

\* C22: a successful outcome has exactly one of outputPath and repoUrl:
\* outputPath when local output was requested, repoUrl when a push was.
C22_ExactlyOneLocation ==
    (gres # <<>> /\ gres[1].success) =>
        /\ HasOutputPath # HasRepoUrl
        /\ HasOutputPath => Truthy(gcall[1].options.output)
        /\ HasRepoUrl => gcall[1].options.pushToGithub

(***************************************************************************)
(* Claims about the module catalog                                         *)
(***************************************************************************)
\* C23: listModules returns a result for every answer: a non-2xx answer
\* with status s gives success false and "API error (s)", a transport
\* failure gives success false and the exception's message.
C23_CatalogFailures ==
    lmresp # <<>> =>
        /\ lmpc = "done"
        /\ lmres # <<>>
        /\ (lmresp[1].kind # "reject" /\ ~lmresp[1].ok) =>
               lmres = <<CatalogFailure(<<"API error (", lmresp[1].status, ")">>)>>
        /\ lmresp[1].kind = "reject" =>
               lmres = <<CatalogFailure(<<lmresp[1].error>>)>>

C23_Witness ==
    /\ lmresp # <<>>
    /\ lmresp[1].status = "503"
    /\ lmres = <<CatalogFailure(<<"API error (", "503", ")">>)>>

(***************************************************************************)
(* Further claims about the credential resolver and the validator          *)
(***************************************************************************)
\* getGitHubUser returned an identity
ReturnsIdentity == result.state = "fulfilled" /\ result.value # Null

\* attempt k (counted from 1) received a 2xx response and every earlier
\* attempt ended in a 5xx response or a transport error
First2xx(k) ==
    /\ k <= maxRetries
    /\ ~outcomes[k].threw
    /\ ResponseOk(outcomes[k])
    /\ \A j \in 1..(k - 1) : IsServerOrTransportFailure(outcomes[j])

\* C24: a finished getGitHubUser returned an identity iff some attempt
\* received a 2xx response after only 5xx responses and transport errors;
\* the identity is that response's payload and no request follows it.
C24_IdentityIffFirst2xx ==
    pc = "done" =>
        /\ ReturnsIdentity <=> \E k \in 1..Len(outcomes) : First2xx(k)
        /\ \A k \in 1..Len(outcomes) :
              First2xx(k) =>
                  /\ result = Fulfilled(outcomes[k].body)
                  /\ k = Len(outcomes)
                  /\ requests = FetchesRecorded

\* the warnings include the missing-code-modules warning
WarnsNoCode == \E w \in Range(vres[1].value.warnings) : w.text = W_NoCode

\* some module of the configuration produced an error
SomeModuleError == \E e \in Range(vres[1].value.errors) : e.index >= 0

\* C28: for a non-empty modules sequence the warnings contain the
\* missing-code-modules warning iff no element has kind 'code', whether or
\* not the modules produced errors; an empty sequence never gets it.
C28_NoCodeWarningIff ==
    Validated =>
        /\ Len(ModuleItems) > 0 => (WarnsNoCode <=> NoModuleOfKindCode(config))
        /\ ModulesIsEmptyArray(config) => ~WarnsNoCode

\* a module without kind 'code' that also fails a field rule
C28_Witness ==
    /\ Validated
    /\ Len(ModuleItems) > 0
    /\ NoModuleOfKindCode(config)
    /\ SomeModuleError
    /\ WarnsNoCode

(***************************************************************************)
(* Claims about the commands                                               *)
(***************************************************************************)
\* the command called generate()
GenerateInvoked == \E i \in 1..Len(cevents) : cevents[i] = "generate"

\* the command has gone past its validity test
ValidityDecided == cpc \in {"generate", "exit"} /\ cload # <<>>

\* C25: the generate command calls generate() only after an output option
\* was found, loadConfig gave a non-null configuration and validateConfig
\* returned valid, in this order; when one of them fails it exits with
\* status 1 without the call; warnings alone never prevent the call.
C25_GenerateOnlyAfterChecks ==
    /\ GenerateInvoked =>
          /\ ~NoOutputOption(copts[1])
          /\ ~cload[1].threw /\ cload[1].value # JsNull
          /\ ~vres[1].threw /\ vres[1].value.valid
          /\ SubSeq(cevents, 1, 3) = <<"loadConfig", "validateConfig", "generate">>
    /\ (cpc = "exit" /\ ~GenerateInvoked) =>
          /\ cstatus = <<1>>
          /\ NoOutputOption(copts[1]) => cevents = <<"exit">>
          /\ (cload # <<>> /\ (cload[1].threw \/ cload[1].value = JsNull)) =>
                 cevents = <<"loadConfig", "exit">>
    /\ (ValidityDecided /\ vres # <<>> /\ ~vres[1].threw /\ vres[1].value.valid) =>
          GenerateInvoked

\* generate() was called for a configuration that has warnings
C25_Witness ==
    /\ GenerateInvoked
    /\ vres[1].value.valid
    /\ vres[1].value.warnings # <<>>

\* the init command called saveConfig / promptForConfig
SaveCalled == \E i \in 1..Len(ievents) : ievents[i] = "saveConfig"
PromptCalled == \E i \in 1..Len(ievents) : ievents[i] = "promptForConfig"

\* --force was given or confirmOverwrite returned true
OverwriteAllowed == iforce \/ ianswer = <<TRUE>>

\* C26: the init command, alone, calls saveConfig on a path whose file
\* existed at its check only with --force or a positive confirmation; after
\* a declined confirmation it ends with the file unchanged and without
\* prompting for a configuration.
C26_SaveOnlyWhenAllowed ==
    /\ (SaveCalled /\ iexisting # <<>>) => OverwriteAllowed
    /\ ianswer = <<FALSE>> =>
          /\ ipc = "done"
          /\ files[ipath] = iexisting[1]
          /\ ~PromptCalled
          /\ ~SaveCalled

\* an existing file was overwritten after a positive confirmation
C26_Witness ==
    /\ SaveCalled
    /\ iexisting # <<>>
    /\ ~iforce
    /\ ianswer = <<TRUE>>
    /\ ireplaced = iexisting

\* C27: whatever another process does between the init command's read of
\* the file and its save, the command overwrites an existing file only
\* with --force or a positive confirmation.
C27_NoUnconfirmedOverwrite ==
    (ireplaced # <<>> /\ ireplaced[1] # Missing) => OverwriteAllowed

\* the groups the list command displays
Groups == lgroups[1].value

\* the places (group, position) at which a module is displayed
PlacesOf(module) ==
    {<<g, j>> \in (1..Len(Groups)) \X (1..MaxCatalog + 1) :
        j <= Len(Groups[g].items) /\ Groups[g].items[j] = module}

\* the rank of a kind in code, extension, provider, vcs, unknown
KindRank(kind) ==
    CHOOSE r \in 1..6 :
        IF \E i \in 1..5 : <<"code", "extension", "provider", "vcs", "unknown">>[i] = kind
        THEN <<"code", "extension", "provider", "vcs", "unknown">>[r] = kind
        ELSE r = 6

\* C29: groupByKind keeps every entry: each module is displayed in exactly
\* one group, entries keep their order within a group, and the groups come
\* in the order code, extension, provider, vcs, unknown.
C29_GroupingPreservesEntries ==
    lgroups # <<>> =>
        /\ ~lgroups[1].threw
        /\ \A i \in 1..Len(lmods) : Cardinality(PlacesOf(lmods[i])) = 1
        /\ \A g \in 1..Len(Groups) :
              \A j \in 1..Len(Groups[g].items) : \A k \in 1..Len(Groups[g].items) :
                  j < k => Groups[g].items[j].id < Groups[g].items[k].id
        /\ \A g \in 1..Len(Groups) : \A h \in 1..Len(Groups) :
              g < h => KindRank(Groups[g].kind) < KindRank(Groups[h].kind)

====
